---- MODULE Spec2Model ----
(***************************************************************************)
(* Model of the molecular-geometry module batistatemplate/hello.py:        *)
(* Atom, Result, Molecule and the coordinate transforms.                   *)
(*                                                                         *)
(* Numbers.  The code computes in float64 (numpy).  The model represents a *)
(* real x by the integer x * Scale (fixed point, resolution 1 / Scale),    *)
(* and the three non-finite floats by the values NaN, PosInf and NegInf     *)
(* that no finite quantity of the model reaches.  Sum, difference and      *)
(* product of the inputs used here are exact, as they are in float64;      *)
(* division and square root round to the nearest representable value.      *)
(* Angles are whole quarter turns (theta = q * pi / 2), for which sine and *)
(* cosine are 0, 1 or -1 up to the resolution.                             *)
(***************************************************************************)
EXTENDS Integers, Sequences, FiniteSets, TLC

VARIABLES
    atoms,   \* the Atom objects the caller has built and not yet put in a Molecule
    ctor,    \* history: how each of them was built ("from_symbol" or "Atom")
    mols,    \* the Molecule objects that exist, in order of creation
    made,    \* history: for each Molecule, the call that created it
    call     \* the most recent call: operation, arguments, exception, return value

vars == <<atoms, ctor, mols, made, call>>

(***************************************************************************)
(* Bounds of the model.                                                    *)
(***************************************************************************)
Scale == 1000
MaxAtoms == 2
MaxMols == 3

(***************************************************************************)
(* float64 arithmetic.                                                     *)
(***************************************************************************)
PosInf == 2000000000
NegInf == -2000000000
NaN == 2100000000

None == "None"

IsFinite(x) == x # NaN /\ x # PosInf /\ x # NegInf

Abs(x) == IF x < 0 THEN -x ELSE x

Sign(x) == IF x < 0 THEN -1 ELSE IF x > 0 THEN 1 ELSE 0

\* a / b rounded to the nearest integer, halves away from zero (b # 0)
RDiv(a, b) == Sign(a) * Sign(b) * ((2 * Abs(a) + Abs(b)) \div (2 * Abs(b)))

RECURSIVE Bisect(_, _, _)
Bisect(n, lo, hi) ==
    IF hi - lo <= 1 THEN lo
    ELSE LET mid == (lo + hi) \div 2
         IN  IF mid * mid <= n THEN Bisect(n, mid, hi) ELSE Bisect(n, lo, mid)

\* the square root of n >= 0 rounded to the nearest integer
ISqrt(n) ==
    LET r == Bisect(n, 0, 46340)
    IN  IF n - r * r > r THEN r + 1 ELSE r

\* a real given in thousandths, as the decimal literals of the source are
Milli(x) == RDiv(x * Scale, 1000)

\* an integer as a float
Real(n) == n * Scale

FNeg(a) ==
    IF a = NaN THEN NaN
    ELSE IF a = PosInf THEN NegInf
    ELSE IF a = NegInf THEN PosInf
    ELSE -a

FAdd(a, b) ==
    IF a = NaN \/ b = NaN THEN NaN
    ELSE IF ~IsFinite(a) /\ ~IsFinite(b) THEN (IF a = b THEN a ELSE NaN)
    ELSE IF ~IsFinite(a) THEN a
    ELSE IF ~IsFinite(b) THEN b
    ELSE a + b

FSub(a, b) == FAdd(a, FNeg(b))

FMul(a, b) ==
    IF a = NaN \/ b = NaN THEN NaN
    ELSE IF ~IsFinite(a) \/ ~IsFinite(b)
         THEN (IF a = 0 \/ b = 0 THEN NaN
               ELSE IF (a > 0) = (b > 0) THEN PosInf ELSE NegInf)
    ELSE RDiv(a * b, Scale)

\* the divisors of the code (a norm, a distance, a sum of masses) are never -0.0
FDiv(a, b) ==
    IF a = NaN \/ b = NaN THEN NaN
    ELSE IF ~IsFinite(a) /\ ~IsFinite(b) THEN NaN
    ELSE IF ~IsFinite(b) THEN 0
    ELSE IF ~IsFinite(a)
         THEN (IF (a > 0) = (b >= 0) THEN PosInf ELSE NegInf)
    ELSE IF b = 0
         THEN (IF a = 0 THEN NaN ELSE IF a > 0 THEN PosInf ELSE NegInf)
    ELSE RDiv(a * Scale, b)

FSqrt(a) ==
    IF a = NaN \/ a = NegInf THEN NaN
    ELSE IF a = PosInf THEN PosInf
    ELSE IF a < 0 THEN NaN
    ELSE ISqrt(a * Scale)

\* np.sum over a sequence of floats
RECURSIVE FSum(_)
FSum(s) == IF s = <<>> THEN 0 ELSE FAdd(FSum(SubSeq(s, 1, Len(s) - 1)), s[Len(s)])

\* np.sin and np.cos of q quarter turns
NpSin(q) == LET r == q % 4 IN IF r = 1 THEN Scale ELSE IF r = 3 THEN -Scale ELSE 0

NpCos(q) == LET r == q % 4 IN IF r = 0 THEN Scale ELSE IF r = 2 THEN -Scale ELSE 0

Ok(v) == [err |-> "none", val |-> v]

Raise(e) == [err |-> e, val |-> None]

(***************************************************************************)
(* Atom                                                                    *)
(***************************************************************************)
Atom(symbol, position, atomic_number, mass) ==
    [symbol |-> symbol, position |-> position,
     atomic_number |-> atomic_number, mass |-> mass]

atomic_data_swapped ==
    [H  |-> <<1, Milli(1008)>>,  He |-> <<2, Milli(4003)>>,
     Li |-> <<3, Milli(6941)>>,  Be |-> <<4, Milli(9012)>>,
     B  |-> <<5, Milli(10811)>>, C  |-> <<6, Milli(12011)>>,
     N  |-> <<8, Milli(15999)>>, O  |-> <<7, Milli(14007)>>]

atomic_data ==
    [H  |-> <<1, Milli(1008)>>,  He |-> <<2, Milli(4003)>>,
     Li |-> <<3, Milli(6941)>>,  Be |-> <<4, Milli(9012)>>,
     B  |-> <<5, Milli(10811)>>, C  |-> <<6, Milli(12011)>>,
     N  |-> <<7, Milli(14007)>>, O  |-> <<8, Milli(15999)>>]

from_symbol(symbol, position) ==
    IF symbol \notin DOMAIN atomic_data
    THEN Raise("ValueError")
    ELSE Ok(Atom(symbol, position, atomic_data[symbol][1], atomic_data[symbol][2]))

AtomFrozen_off == FALSE

\* @dataclass(frozen=True)
AtomFrozen == TRUE

\* the generated __setattr__ of the dataclass: the Atom after `atom.name = value`
Atom_setattr(atom, name, value) ==
    IF AtomFrozen
    THEN Raise("FrozenInstanceError")
    ELSE Ok([atom EXCEPT ![name] = value])

(***************************************************************************)
(* Result and Molecule                                                     *)
(***************************************************************************)
Result_message_dropped(value, success, error_message) ==
    [value |-> value, success |-> success, error_message |-> None]

Result(value, success, error_message) ==
    [value |-> value, success |-> success, error_message |-> error_message]

Molecule(atom_seq, unit_system) == [atoms |-> atom_seq, unit_system |-> unit_system]

\* an (n, 3) array; for no atoms np.array([]) is the 1-dimensional empty array
coordinates(m) == [i \in 1..Len(m.atoms) |-> m.atoms[i].position]

atomic_numbers(m) == [i \in 1..Len(m.atoms) |-> m.atoms[i].atomic_number]

center_of_mass_unweighted(m) ==
    LET n == Len(m.atoms)
        coords == coordinates(m)
    IN  IF n = 0 THEN <<>>
        ELSE [c \in 1..3 |-> FDiv(FSum([i \in 1..n |-> coords[i][c]]), Real(n))]

center_of_mass(m) ==
    LET n == Len(m.atoms)
        masses == [i \in 1..n |-> m.atoms[i].mass]
        coords == coordinates(m)
        weighted_coords == [i \in 1..n |-> [c \in 1..3 |-> FMul(coords[i][c], masses[i])]]
    IN  IF n = 0 THEN <<>>
        ELSE [c \in 1..3 |->
                FDiv(FSum([i \in 1..n |-> weighted_coords[i][c]]), FSum(masses))]

calculate_distance_matrix_no_sqrt(m) ==
    LET n == Len(m.atoms)
        coords == coordinates(m)
        diff(i, j) == [c \in 1..3 |-> FSub(coords[i][c], coords[j][c])]
    IN  IF n = 0 THEN Raise("IndexError")
        ELSE Ok([i \in 1..n |-> [j \in 1..n |->
                    FSum([c \in 1..3 |-> FMul(diff(i, j)[c], diff(i, j)[c])])]])

\* coords[:, np.newaxis, :] raises IndexError on the 1-dimensional empty array
calculate_distance_matrix(m) ==
    LET n == Len(m.atoms)
        coords == coordinates(m)
        diff(i, j) == [c \in 1..3 |-> FSub(coords[i][c], coords[j][c])]
    IN  IF n = 0 THEN Raise("IndexError")
        ELSE Ok([i \in 1..n |-> [j \in 1..n |->
                    FSqrt(FSum([c \in 1..3 |-> FMul(diff(i, j)[c], diff(i, j)[c])]))]])

\* 0.5 * x
Half_skipped(x) == x

Half(x) == IF IsFinite(x) THEN RDiv(x, 2) ELSE x

nuclear_repulsion_negated(m) ==
    LET n == Len(m.atoms)
        d == calculate_distance_matrix(m)
        z == atomic_numbers(m)
        charges == [i \in 1..n |-> [j \in 1..n |-> z[i] * z[j]]]
        filled == [i \in 1..n |-> [j \in 1..n |-> IF i = j THEN PosInf ELSE d.val[i][j]]]
        energy == FNeg(Half(FSum([i \in 1..n |->
                      FSum([j \in 1..n |-> FDiv(Real(charges[i][j]), filled[i][j])])])))
    IN  IF d.err # "none"
        THEN Result(0, FALSE, d.err)
        ELSE Result(energy, TRUE, None)

\* the products of the atomic numbers of the model stay far inside int32
nuclear_repulsion(m) ==
    LET n == Len(m.atoms)
        d == calculate_distance_matrix(m)
        z == atomic_numbers(m)
        charges == [i \in 1..n |-> [j \in 1..n |-> z[i] * z[j]]]
        filled == [i \in 1..n |-> [j \in 1..n |-> IF i = j THEN PosInf ELSE d.val[i][j]]]
        energy == Half(FSum([i \in 1..n |->
                      FSum([j \in 1..n |-> FDiv(Real(charges[i][j]), filled[i][j])])]))
    IN  IF d.err # "none"
        THEN Result(0, FALSE, d.err)
        ELSE Result(energy, TRUE, None)

(***************************************************************************)
(* Coordinate transforms                                                   *)
(***************************************************************************)
Min(a, b) == IF a < b THEN a ELSE b

apply_to_coordinates_default_units(new_coords, molecule) ==
    IF new_coords.err # "none" THEN new_coords
    ELSE LET k == Min(Len(molecule.atoms), Len(new_coords.val))
         IN  Ok(Molecule([i \in 1..k |->
                    Atom(molecule.atoms[i].symbol, new_coords.val[i],
                         molecule.atoms[i].atomic_number, molecule.atoms[i].mass)],
                    "ATOMIC"))

apply_to_coordinates_swapped(new_coords, molecule) ==
    IF new_coords.err # "none" THEN new_coords
    ELSE LET k == Min(Len(molecule.atoms), Len(new_coords.val))
         IN  Ok(Molecule([i \in 1..k |->
                    Atom(molecule.atoms[i].symbol, new_coords.val[i],
                         molecule.atoms[i].mass, molecule.atoms[i].atomic_number)],
                    molecule.unit_system))

\* new_coords is func(molecule.coordinates), or the exception func raised
apply_to_coordinates(new_coords, molecule) ==
    IF new_coords.err # "none" THEN new_coords
    ELSE LET k == Min(Len(molecule.atoms), Len(new_coords.val))
         IN  Ok(Molecule([i \in 1..k |->
                    Atom(molecule.atoms[i].symbol, new_coords.val[i],
                         molecule.atoms[i].atomic_number, molecule.atoms[i].mass)],
                    molecule.unit_system))

translate_lambda_minus(coords, vector) ==
    IF coords = <<>> THEN Raise("ValueError")
    ELSE Ok([i \in 1..Len(coords) |-> [c \in 1..3 |-> FSub(coords[i][c], vector[c])]])

\* lambda coords: coords + vector; shapes (0,) and (3,) do not broadcast
translate_lambda(coords, vector) ==
    IF coords = <<>> THEN Raise("ValueError")
    ELSE Ok([i \in 1..Len(coords) |-> [c \in 1..3 |-> FAdd(coords[i][c], vector[c])]])

translate_molecule(molecule, vector) ==
    apply_to_coordinates(translate_lambda(coordinates(molecule), vector), molecule)

MatMul(a, b) ==
    [i \in 1..3 |-> [j \in 1..3 |-> FSum([k \in 1..3 |-> FMul(a[i][k], b[k][j])])]]

normalize_skipped(axis_vec) == axis_vec

\* axis_vec / np.linalg.norm(axis_vec)
normalize(axis_vec) ==
    LET norm == FSqrt(FSum([c \in 1..3 |-> FMul(axis_vec[c], axis_vec[c])]))
    IN  [c \in 1..3 |-> FDiv(axis_vec[c], norm)]

rotation_matrix_plus(theta, axis_vec) ==
    LET a == normalize(axis_vec)
        cross_matrix == << <<0, FNeg(a[3]), a[2]>>,
                           <<a[3], 0, FNeg(a[1])>>,
                           <<FNeg(a[2]), a[1], 0>> >>
        eye == [i \in 1..3 |-> [j \in 1..3 |-> IF i = j THEN Real(1) ELSE 0]]
        kk == MatMul(cross_matrix, cross_matrix)
    IN  [i \in 1..3 |-> [j \in 1..3 |->
            FAdd(FAdd(eye[i][j], FMul(NpSin(theta), cross_matrix[i][j])),
                 FMul(FSub(Real(1), NpCos(theta)), kk[i][j]))]]

rotation_matrix(theta, axis_vec) ==
    LET a == normalize(axis_vec)
        cross_matrix == << <<0, FNeg(a[3]), a[2]>>,
                           <<a[3], 0, FNeg(a[1])>>,
                           <<FNeg(a[2]), a[1], 0>> >>
        eye == [i \in 1..3 |-> [j \in 1..3 |-> IF i = j THEN Real(1) ELSE 0]]
        kk == MatMul(cross_matrix, cross_matrix)
    IN  [i \in 1..3 |-> [j \in 1..3 |->
            FAdd(FAdd(eye[i][j], FMul(NpSin(-theta), cross_matrix[i][j])),
                 FMul(FSub(Real(1), NpCos(-theta)), kk[i][j]))]]

\* lambda coords: coords @ rot_mat.T; shapes (0,) and (3, 3) do not multiply
rotate_lambda(coords, rot_mat) ==
    IF coords = <<>> THEN Raise("ValueError")
    ELSE Ok([i \in 1..Len(coords) |-> [c \in 1..3 |->
                FSum([k \in 1..3 |-> FMul(coords[i][k], rot_mat[c][k])])]])

DefaultAxis == <<0, 0, Real(1)>>

\* the axis argument when the caller leaves it out (None)
NoAxis == <<>>

rotate_molecule(molecule, angle, axis) ==
    LET ax == IF axis = NoAxis THEN DefaultAxis ELSE axis
        rot_mat == rotation_matrix(angle, ax)
    IN  apply_to_coordinates(rotate_lambda(coordinates(molecule), rot_mat), molecule)

(***************************************************************************)
(* How Python binds the arguments after `molecule`: both functions declare *)
(* them after `*`, so they are keyword-only.                               *)
(***************************************************************************)
vector_param_positional == [kind |-> "positional_or_keyword", has_default |-> FALSE]

vector_param == [kind |-> "keyword_only", has_default |-> FALSE]

angle_param == [kind |-> "keyword_only", has_default |-> FALSE]

axis_param == [kind |-> "keyword_only", has_default |-> TRUE]

\* style is how the caller passes the argument: "keyword", "positional", "omitted"
Binds(param, style) ==
    IF style = "keyword" THEN TRUE
    ELSE IF style = "positional" THEN param.kind # "keyword_only"
    ELSE param.has_default

(***************************************************************************)
(* Inputs of the calls.                                                    *)
(***************************************************************************)
AllSymbols == {"H", "He", "Li", "Be", "B", "C", "N", "O", "Xx"}

GeomSymbols == {"H", "O", "Xx"}

Points == {<<0, 0, 0>>, <<Real(1), 0, 0>>, <<Real(1), Real(2), Real(2)>>}

\* what callers of the constructor Atom(...) pass for atomic_number
DirectNumbers == {1, -2}

UnitSystems == {"ATOMIC", "SI"}

Vectors == {<<Real(1), 0, 0>>, <<Real(-1), 0, 0>>, <<0, Real(2), Real(-1)>>}

\* quarter turns: pi / 2 and pi
Angles == {1, 2}

Axes == {<<0, Real(1), 0>>, <<0, 0, Real(2)>>, <<0, 0, 0>>}

\* functions a caller passes to apply_to_coordinates: lambda c: -c,
\* lambda c: c[:1] and lambda c: np.concatenate([c, c])
Funcs == {"negate", "first_row", "doubled"}

\* func(coords) for func in Funcs
CallFunc(func, coords) ==
    IF func = "negate"
    THEN Ok([i \in 1..Len(coords) |-> [c \in 1..3 |-> FNeg(coords[i][c])]])
    ELSE IF func = "first_row"
    THEN Ok(SubSeq(coords, 1, Min(1, Len(coords))))
    ELSE Ok(coords \o coords)

AttrValues ==
    {<<"symbol", "He">>, <<"position", <<0, Real(1), 0>> >>,
     <<"atomic_number", 2>>, <<"mass", Milli(4003)>>}

\* the water_molecule fixture
Water ==
    [atoms |-> << from_symbol("O", <<0, 0, 0>>).val,
                  from_symbol("H", <<0, Milli(757), Milli(587)>>).val,
                  from_symbol("H", <<0, -Milli(757), Milli(587)>>).val >>,
     ctor |-> <<"from_symbol", "from_symbol", "from_symbol">>,
     unit_system |-> "ATOMIC"]

\* the methane_molecule fixture, a = 1 / sqrt(3)
Methane ==
    LET a == Milli(577)
    IN  [atoms |-> << from_symbol("C", <<0, 0, 0>>).val,
                      from_symbol("H", <<a, a, a>>).val,
                      from_symbol("H", <<-a, -a, a>>).val,
                      from_symbol("H", <<-a, a, -a>>).val,
                      from_symbol("H", <<a, -a, -a>>).val >>,
         ctor |-> <<"from_symbol", "from_symbol", "from_symbol", "from_symbol",
                    "from_symbol">>,
         unit_system |-> "ATOMIC"]

\* one Atom from the factory and one from the constructor, in SI units
Mixed ==
    [atoms |-> << from_symbol("N", <<Real(1), Real(2), Real(2)>>).val,
                  Atom("H", <<Real(1), 0, 0>>, -2, Milli(1008)) >>,
     ctor |-> <<"from_symbol", "Atom">>,
     unit_system |-> "SI"]

Single ==
    [atoms |-> << from_symbol("He", <<Real(1), 0, 0>>).val >>,
     ctor |-> <<"from_symbol">>,
     unit_system |-> "STANDARD"]

Empty == [atoms |-> <<>>, ctor |-> <<>>, unit_system |-> "ATOMIC"]

TestMolecules == {Water, Methane, Mixed, Single, Empty}

Called(op, args, r, ret) == [op |-> op, args |-> args, err |-> r.err, ret |-> ret]

(***************************************************************************)
(* The calls.                                                              *)
(***************************************************************************)
Init ==
    /\ atoms = <<>>
    /\ ctor = <<>>
    /\ mols = <<>>
    /\ made = <<>>
    /\ call = [op |-> "none", args |-> None, err |-> "none", ret |-> None]

\* Atom.from_symbol(symbol, position); the caller appends the Atom to its list
CallFromSymbol(symbol, position) ==
    /\ mols = <<>>
    /\ Len(atoms) < MaxAtoms
    /\ LET r == from_symbol(symbol, position)
       IN  /\ call' = Called("from_symbol", <<symbol, position>>, r, r.val)
           /\ atoms' = IF r.err = "none" THEN Append(atoms, r.val) ELSE atoms
           /\ ctor' = IF r.err = "none" THEN Append(ctor, "from_symbol") ELSE ctor
    /\ UNCHANGED <<mols, made>>

\* Atom(symbol, position, atomic_number, mass): the dataclass constructor
CallAtom(symbol, position, atomic_number, mass) ==
    /\ mols = <<>>
    /\ Len(atoms) < MaxAtoms
    /\ LET r == Ok(Atom(symbol, position, atomic_number, mass))
       IN  /\ call' = Called("Atom", <<symbol, position, atomic_number, mass>>, r, r.val)
           /\ atoms' = Append(atoms, r.val)
           /\ ctor' = Append(ctor, "Atom")
    /\ UNCHANGED <<mols, made>>

\* atoms[i].name = value
CallSetattr(i, name, value) ==
    /\ i \in 1..Len(atoms)
    /\ LET r == Atom_setattr(atoms[i], name, value)
       IN  /\ call' = Called("setattr", <<i, name, value>>, r, None)
           /\ atoms' = IF r.err = "none" THEN [atoms EXCEPT ![i] = r.val] ELSE atoms
    /\ UNCHANGED <<ctor, mols, made>>

\* the state after Molecule(atom_seq, unit_system) made the first Molecule
Constructed(atom_seq, ctors, unit_system) ==
    /\ mols = <<Molecule(atom_seq, unit_system)>>
    /\ made = <<[op |-> "Molecule", src |-> 0, args |-> ctors, input |-> <<>>]>>
    /\ call = Called("Molecule", <<Len(atom_seq), unit_system>>, Ok(1), 1)
    /\ atoms = <<>>
    /\ ctor = <<>>

\* Molecule(atoms, unit_system): the list of Atoms becomes the Molecule's tuple
CallMolecule(unit_system) ==
    /\ mols = <<>>
    /\ mols' = <<Molecule(atoms, unit_system)>>
    /\ made' = <<[op |-> "Molecule", src |-> 0, args |-> ctor, input |-> <<>>]>>
    /\ call' = Called("Molecule", <<Len(atoms), unit_system>>, Ok(1), 1)
    /\ atoms' = <<>>
    /\ ctor' = <<>>

\* mols[k].center_of_mass
CallCenterOfMass(k) ==
    /\ k \in 1..Len(mols)
    /\ call' = Called("center_of_mass", k, Ok(0), center_of_mass(mols[k]))
    /\ UNCHANGED <<atoms, ctor, mols, made>>

\* mols[k].calculate_distance_matrix()
CallDistanceMatrix(k) ==
    /\ k \in 1..Len(mols)
    /\ LET r == calculate_distance_matrix(mols[k])
       IN  call' = Called("calculate_distance_matrix", k, r, r.val)
    /\ UNCHANGED <<atoms, ctor, mols, made>>

\* mols[k].nuclear_repulsion()
CallNuclearRepulsion(k) ==
    /\ k \in 1..Len(mols)
    /\ call' = Called("nuclear_repulsion", k, Ok(0), nuclear_repulsion(mols[k]))
    /\ UNCHANGED <<atoms, ctor, mols, made>>

Transformed_in_place(op, args, r) ==
    LET k == Len(mols)
    IN  /\ call' = Called(op, args, r, IF r.err = "none" THEN k ELSE 0)
        /\ mols' = IF r.err = "none" THEN [mols EXCEPT ![k] = r.val] ELSE mols
        /\ made' = made
        /\ UNCHANGED <<atoms, ctor>>

\* a transform of the newest Molecule returned r: a new Molecule, or an exception
Transformed(op, args, r) ==
    LET k == Len(mols)
    IN  /\ call' = Called(op, args, r, IF r.err = "none" THEN k + 1 ELSE 0)
        /\ mols' = IF r.err = "none" THEN Append(mols, r.val) ELSE mols
        /\ made' = IF r.err = "none"
                   THEN Append(made, [op |-> op, src |-> k, args |-> args,
                                      input |-> coordinates(mols[k])])
                   ELSE made
        /\ UNCHANGED <<atoms, ctor>>

\* translate_molecule(m, vector=vector), translate_molecule(m, vector), translate_molecule(m)
CallTranslate(style, vector) ==
    /\ mols # <<>>
    /\ Len(mols) < MaxMols
    /\ Transformed("translate_molecule", [style |-> style, vector |-> vector],
                   IF Binds(vector_param, style)
                   THEN translate_molecule(mols[Len(mols)], vector)
                   ELSE Raise("TypeError"))

\* rotate_molecule(m, angle=angle, axis=axis), rotate_molecule(m, angle), rotate_molecule(m)
CallRotate(angle_style, angle, axis) ==
    /\ mols # <<>>
    /\ Len(mols) < MaxMols
    /\ Transformed("rotate_molecule",
                   [style |-> angle_style, angle |-> angle, axis |-> axis],
                   IF Binds(angle_param, angle_style)
                      /\ Binds(axis_param, IF axis = NoAxis THEN "omitted" ELSE "keyword")
                   THEN rotate_molecule(mols[Len(mols)], angle, axis)
                   ELSE Raise("TypeError"))

\* apply_to_coordinates(func, m)
CallApply(func) ==
    /\ mols # <<>>
    /\ Len(mols) < MaxMols
    /\ Transformed("apply_to_coordinates", [func |-> func],
                   apply_to_coordinates(CallFunc(func, coordinates(mols[Len(mols)])),
                                        mols[Len(mols)]))

(***************************************************************************)
(* Spec: a caller builds Atoms, makes a Molecule of them, reads its        *)
(* derived quantities and transforms it once.                              *)
(***************************************************************************)
Next ==
    \/ \E symbol \in GeomSymbols, position \in Points :
           CallFromSymbol(symbol, position)
    \/ \E position \in Points : CallAtom("H", position, -2, Milli(1008))
    \/ \E i \in 1..MaxAtoms, a \in AttrValues : CallSetattr(i, a[1], a[2])
    \/ \E unit_system \in UnitSystems : CallMolecule(unit_system)
    \/ \E k \in 1..MaxMols : CallCenterOfMass(k)
    \/ \E k \in 1..MaxMols : CallDistanceMatrix(k)
    \/ \E k \in 1..MaxMols : CallNuclearRepulsion(k)
    \/ Len(mols) = 1 /\ CallTranslate("keyword", <<Real(1), 0, 0>>)
    \/ Len(mols) = 1 /\ CallRotate("keyword", 1, NoAxis)

Spec == Init /\ [][Next]_vars

(***************************************************************************)
(* SpecAtom: the calls that build and touch Atoms, over every symbol of    *)
(* the table.                                                              *)
(***************************************************************************)
NextAtom ==
    \/ \E symbol \in AllSymbols, position \in Points :
           CallFromSymbol(symbol, position)
    \/ \E symbol \in {"H", "Xx"}, position \in Points, z \in DirectNumbers :
           CallAtom(symbol, position, z, Milli(1008))
    \/ \E i \in 1..MaxAtoms, a \in AttrValues : CallSetattr(i, a[1], a[2])

SpecAtom == Init /\ [][NextAtom]_vars

(***************************************************************************)
(* SpecChain: chains of transforms, each applied to the Molecule the one   *)
(* before returned, starting from the Molecules of the tests, with the     *)
(* nuclear repulsion of the Molecules read in between.                     *)
(***************************************************************************)
InitChain == \E t \in TestMolecules : Constructed(t.atoms, t.ctor, t.unit_system)

NextChain ==
    \/ \E vector \in Vectors : CallTranslate("keyword", vector)
    \/ \E vector \in Vectors : CallTranslate("positional", vector)
    \/ CallTranslate("omitted", <<>>)
    \/ \E angle \in Angles, axis \in Axes \cup {NoAxis} : CallRotate("keyword", angle, axis)
    \/ \E angle \in Angles : CallRotate("positional", angle, NoAxis)
    \/ CallRotate("omitted", 0, NoAxis)
    \/ \E k \in 1..MaxMols : CallNuclearRepulsion(k)
    \/ \E func \in Funcs : CallApply(func)

SpecChain == InitChain /\ [][NextChain]_vars

(***************************************************************************)
(* Properties.                                                             *)
(***************************************************************************)
\* the supported symbols and the lookup table, as the specification states them
\* (masses in thousandths)
SupportedSymbols == {"H", "He", "Li", "Be", "B", "C", "N", "O"}

PeriodicTable ==
    [H  |-> <<1, 1008>>,  He |-> <<2, 4003>>,  Li |-> <<3, 6941>>,
     Be |-> <<4, 9012>>,  B  |-> <<5, 10811>>, C  |-> <<6, 12011>>,
     N  |-> <<7, 14007>>, O  |-> <<8, 15999>>]

\* the atom's symbol is supported and its number and mass are the table's
Consistent(a) ==
    /\ a.symbol \in SupportedSymbols
    /\ a.atomic_number = PeriodicTable[a.symbol][1]
    /\ a.mass = Milli(PeriodicTable[a.symbol][2])

\* C1: Atom.from_symbol(symbol, position) returns, for each of the eight supported
\* symbols, an Atom with that symbol and position and the table's atomic number and
\* mass; for any other symbol it raises ValueError and returns no Atom.
C1_FromSymbol ==
    call.op = "from_symbol" =>
        LET symbol == call.args[1]
            position == call.args[2]
        IN  IF symbol \in SupportedSymbols
            THEN /\ call.err = "none"
                 /\ call.ret.symbol = symbol
                 /\ call.ret.position = position
                 /\ call.ret.atomic_number = PeriodicTable[symbol][1]
                 /\ call.ret.mass = Milli(PeriodicTable[symbol][2])
                 /\ atoms # <<>> /\ atoms[Len(atoms)] = call.ret
            ELSE /\ call.err = "ValueError"
                 /\ call.ret = None

C1_Witness ==
    /\ call.op = "from_symbol"
    /\ call.args[1] = "O"
    /\ call.err = "none"
    /\ call.ret.atomic_number = 8
    /\ call.ret.mass = Milli(15999)

\* C2 as stated: every Atom that exists, however it was built, has a supported
\* symbol and the atomic number and mass the table gives for it.
C2_EveryAtomConsistent ==
    /\ \A i \in 1..Len(atoms) : Consistent(atoms[i])
    /\ \A k \in 1..Len(mols) : \A i \in 1..Len(mols[k].atoms) : Consistent(mols[k].atoms[i])

\* C2 amended: every Atom built by Atom.from_symbol has a supported symbol and the
\* table's atomic number and mass, and a transform copies symbol, atomic number and
\* mass of each Atom unchanged into the new Molecule, so that the Atoms it makes
\* from Atoms of the factory are consistent too; the constructor Atom(...) keeps
\* whatever the caller passes.
C2_FactoryAtomsConsistent ==
    /\ \A i \in 1..Len(atoms) : ctor[i] = "from_symbol" => Consistent(atoms[i])
    /\ \A k \in 1..Len(mols) :
          /\ Len(mols[k].atoms) = Len(mols[1].atoms)
          /\ \A i \in 1..Len(mols[k].atoms) :
                /\ mols[k].atoms[i].symbol = mols[1].atoms[i].symbol
                /\ mols[k].atoms[i].atomic_number = mols[1].atoms[i].atomic_number
                /\ mols[k].atoms[i].mass = mols[1].atoms[i].mass
                /\ made[1].args[i] = "from_symbol" => Consistent(mols[k].atoms[i])

C2_Witness ==
    /\ Len(mols) = 2
    /\ made[1].args = <<"from_symbol", "Atom">>
    /\ Consistent(mols[2].atoms[1])
    /\ ~Consistent(mols[2].atoms[2])

RECURSIVE Sigma(_, _)
Sigma(f, n) == IF n = 0 THEN 0 ELSE Sigma(f, n - 1) + f[n]

\* the squared distance of atoms i and j of m, from their positions
SquaredDistance(m, i, j) ==
    Sigma([c \in 1..3 |-> (m.atoms[i].position[c] - m.atoms[j].position[c])
                          * (m.atoms[i].position[c] - m.atoms[j].position[c])], 3)

\* d is the square root of sq to within half the resolution
IsRoot(d, sq) ==
    /\ d >= 0
    /\ d > 0 => (2 * d - 1) * (2 * d - 1) <= 4 * sq
    /\ 4 * sq <= (2 * d + 1) * (2 * d + 1)

\* D is the n-by-n matrix of the Euclidean distances of the atoms of m, symmetric
\* and with a zero diagonal
IsDistanceMatrix(D, m) ==
    LET n == Len(m.atoms)
    IN  /\ Len(D) = n
        /\ \A i \in 1..n :
              /\ Len(D[i]) = n
              /\ D[i][i] = 0
              /\ \A j \in 1..n :
                    /\ IsRoot(D[i][j], SquaredDistance(m, i, j))
                    /\ D[i][j] = D[j][i]

DistancesPositive(m) ==
    \A i, j \in 1..Len(m.atoms) : i # j => m.atoms[i].position # m.atoms[j].position

NonNegativeEnergy(m, r) ==
    /\ r.success = TRUE
    /\ r.error_message = None
    /\ IsFinite(r.value)
    /\ r.value >= 0
    /\ Len(m.atoms) >= 2 => r.value > 0

\* C5 as stated: for a Molecule whose pairwise distances are all positive, whatever
\* the atomic numbers of its Atoms and however they were built, nuclear_repulsion()
\* returns success = true, error_message = None and value >= 0, and value > 0 when
\* there are two atoms or more.
C5_AnyAtomicNumbers ==
    call.op = "nuclear_repulsion" =>
        LET m == mols[call.args]
        IN  DistancesPositive(m) => NonNegativeEnergy(m, call.ret)

\* C5 amended: the same for a Molecule, of at least one atom, whose atomic numbers
\* are all positive and small enough for their products to fit int32 (at most
\* 46340, as every Atom of Atom.from_symbol has); for the Molecule of no atoms
\* nuclear_repulsion() returns success = false, value 0 and an error message.
C5_PositiveAtomicNumbers ==
    call.op = "nuclear_repulsion" =>
        LET m == mols[call.args]
        IN  IF Len(m.atoms) >= 1
            THEN (/\ DistancesPositive(m)
                  /\ \A i \in 1..Len(m.atoms) :
                        m.atoms[i].atomic_number > 0 /\ m.atoms[i].atomic_number <= 46340)
                 => NonNegativeEnergy(m, call.ret)
            ELSE /\ call.ret.success = FALSE
                 /\ call.ret.value = 0
                 /\ call.ret.error_message # None

C5_Witness ==
    /\ call.op = "nuclear_repulsion"
    /\ Len(mols[call.args].atoms) = 2
    /\ DistancesPositive(mols[call.args])
    /\ mols[call.args].atoms[1].atomic_number = 8
    /\ mols[call.args].atoms[2].atomic_number = 1
    /\ call.ret.success = TRUE
    /\ call.ret.value > 0

\* C10: center_of_mass of a Molecule of at least one atom is
\* sum_i(mass_i * position_i) / sum_i(mass_i) over the stored atoms (to within half
\* the resolution), and for a single atom it is that atom's position.
C10_CenterOfMass ==
    call.op = "center_of_mass" =>
        LET m == mols[call.args]
            n == Len(m.atoms)
            com == call.ret
            total == Sigma([i \in 1..n |-> m.atoms[i].mass], n)
            moment(c) == Sigma([i \in 1..n |-> m.atoms[i].mass * m.atoms[i].position[c]], n)
        IN  n >= 1 =>
                /\ Len(com) = 3
                /\ \A c \in 1..3 : 2 * Abs(com[c] * total - moment(c)) <= total
                /\ n = 1 => com = m.atoms[1].position

C10_Witness ==
    /\ call.op = "center_of_mass"
    /\ Len(mols[call.args].atoms) = 2
    /\ mols[call.args].atoms[1].mass # mols[call.args].atoms[2].mass
    /\ mols[call.args].atoms[1].position = <<0, 0, 0>>
    /\ mols[call.args].atoms[2].position = <<Real(1), Real(2), Real(2)>>
    /\ call.ret[1] > 0
    /\ call.ret[1] # Milli(500)

\* coords with vector added to every row
PlusVector(coords, vector) ==
    [i \in 1..Len(coords) |-> [c \in 1..3 |-> FAdd(coords[i][c], vector[c])]]

\* C6: translate_molecule(m, vector=v) returns a Molecule whose coordinates are
\* m.coordinates + v row by row; translating by u and then by v gives the
\* coordinates of translating once by u + v, and translating by v and then by -v
\* gives back the coordinates of m; the coordinates of m are the same after the call.
C6_TranslateAdditive ==
    \A k \in 2..Len(mols) :
        made[k].op = "translate_molecule" =>
            LET s == made[k].src
                v == made[k].args.vector
            IN  /\ coordinates(mols[k]) = PlusVector(made[k].input, v)
                /\ coordinates(mols[s]) = made[k].input
                /\ made[s].op = "translate_molecule" =>
                      LET u == made[s].args.vector
                          m == mols[made[s].src]
                          uv == [c \in 1..3 |-> u[c] + v[c]]
                      IN  /\ coordinates(mols[k]) = PlusVector(coordinates(m), uv)
                          /\ coordinates(mols[k])
                                = coordinates(translate_molecule(m, uv).val)
                          /\ uv = <<0, 0, 0>> => coordinates(mols[k]) = coordinates(m)

C6_Witness ==
    /\ Len(mols) = 3
    /\ Len(mols[1].atoms) = 3
    /\ made[2].op = "translate_molecule"
    /\ made[2].args.vector = <<Real(1), 0, 0>>
    /\ made[3].op = "translate_molecule"
    /\ made[3].args.vector = <<Real(-1), 0, 0>>
    /\ coordinates(mols[2]) # coordinates(mols[1])
    /\ coordinates(mols[3]) = coordinates(mols[1])

\* the distance of every atom of m to the origin
OriginDistances(m) ==
    [i \in 1..Len(m.atoms) |->
        FSqrt(FSum([c \in 1..3 |-> FMul(m.atoms[i].position[c], m.atoms[i].position[c])]))]

\* C7: for every angle and every non-zero axis (the default axis included) the
\* distance matrix of rotate_molecule(m, angle=..., axis=...) equals the distance
\* matrix of m, and every atom is as far from the origin as it was.
C7_RotateIsometry ==
    \A k \in 2..Len(mols) :
        (made[k].op = "rotate_molecule" /\ made[k].args.axis # <<0, 0, 0>>) =>
            /\ calculate_distance_matrix(mols[k]) = calculate_distance_matrix(mols[made[k].src])
            /\ OriginDistances(mols[k]) = OriginDistances(mols[made[k].src])

C7_Witness ==
    /\ Len(mols) = 2
    /\ Len(mols[1].atoms) = 3
    /\ made[2].op = "rotate_molecule"
    /\ made[2].args.axis = <<0, 0, Real(2)>>
    /\ made[2].args.angle = 1
    /\ coordinates(mols[2]) # coordinates(mols[1])
    /\ calculate_distance_matrix(mols[2]).val[1][2] > 0
    /\ calculate_distance_matrix(mols[2]) = calculate_distance_matrix(mols[1])

\* R = I + sin(-a) K + (1 - cos(-a)) K^2 for a quarter turns about the unit vector
\* n, whose components are whole numbers for the axes along x, y and z
Rodrigues(a, n) ==
    LET sin == IF a % 4 = 1 THEN -1 ELSE IF a % 4 = 3 THEN 1 ELSE 0
        cos == IF a % 4 = 0 THEN 1 ELSE IF a % 4 = 2 THEN -1 ELSE 0
        K == << <<0, -n[3], n[2]>>, <<n[3], 0, -n[1]>>, <<-n[2], n[1], 0>> >>
        K2 == [i \in 1..3 |-> [j \in 1..3 |->
                  K[i][1] * K[1][j] + K[i][2] * K[2][j] + K[i][3] * K[3][j]]]
    IN  [i \in 1..3 |-> [j \in 1..3 |->
            (IF i = j THEN 1 ELSE 0) + sin * K[i][j] + (1 - cos) * K2[i][j]]]

\* R * p
Image(R, p) == [i \in 1..3 |-> FSum([j \in 1..3 |-> FMul(Real(R[i][j]), p[j])])]

\* C8: rotate_molecule(m, angle=a, axis=x), x not the zero vector, sends every atom
\* position p to R * p with R = I + sin(-a) K + (1 - cos(-a)) K^2, K the cross-product
\* matrix of x / |x| and x = (0, 0, 1) when the axis is left out.  So a rotation
\* with the axis left out keeps every z and, for a = pi, negates every x and y; a
\* rotation by pi / 2 about (0, 1, 0) sends (1, 0, 0) to (0, 0, 1), and translating
\* a Molecule whose first atom is at the origin by (1, 0, 0) and then rotating it
\* by pi / 2 about the y-axis puts that atom at (0, 0, 1).
C8_RotationMatrix ==
    \A k \in 2..Len(mols) :
        (made[k].op = "rotate_molecule" /\ made[k].args.axis # <<0, 0, 0>>) =>
            LET a == made[k].args.angle
                x == IF made[k].args.axis = NoAxis THEN <<0, 0, 1>> ELSE made[k].args.axis
                R == Rodrigues(a, [c \in 1..3 |-> Sign(x[c])])
                p == made[k].input
                q == coordinates(mols[k])
                s == made[k].src
            IN  /\ Len(q) = Len(p)
                /\ \A i \in 1..Len(p) :
                      /\ q[i] = Image(R, p[i])
                      /\ made[k].args.axis = NoAxis => q[i][3] = p[i][3]
                      /\ (made[k].args.axis = NoAxis /\ a = 2) =>
                             (q[i][1] = FNeg(p[i][1]) /\ q[i][2] = FNeg(p[i][2]))
                      /\ (made[k].args.axis = <<0, Real(1), 0>> /\ a = 1
                          /\ p[i] = <<Real(1), 0, 0>>) => q[i] = <<0, 0, Real(1)>>
                /\ (/\ made[k].args.axis = <<0, Real(1), 0>>
                    /\ a = 1
                    /\ made[s].op = "translate_molecule"
                    /\ made[s].args.vector = <<Real(1), 0, 0>>
                    /\ made[s].input[1] = <<0, 0, 0>>) =>
                       q[1] = <<0, 0, Real(1)>>

C8_Witness ==
    /\ Len(mols) = 3
    /\ Len(mols[1].atoms) = 5
    /\ mols[1].atoms[1].position = <<0, 0, 0>>
    /\ made[2].op = "translate_molecule"
    /\ made[2].args.vector = <<Real(1), 0, 0>>
    /\ made[3].op = "rotate_molecule"
    /\ made[3].args.angle = 1
    /\ made[3].args.axis = <<0, Real(1), 0>>
    /\ mols[3].atoms[1].position = <<0, 0, Real(1)>>
    /\ mols[3].atoms[2].position # mols[2].atoms[2].position

\* C9: translate_molecule with the vector passed positionally or left out, and
\* rotate_molecule with the angle passed positionally or left out, raise TypeError
\* and make no Molecule; no default vector or angle takes the place of the argument.
C9_KeywordOnly ==
    [][(/\ call'.op \in {"translate_molecule", "rotate_molecule"}
        /\ call'.args.style # "keyword") =>
            /\ call'.err = "TypeError"
            /\ call'.ret = 0
            /\ mols' = mols
            /\ made' = made]_vars

C9_Witness ==
    /\ call.op = "rotate_molecule"
    /\ call.args.style = "positional"
    /\ call.args.angle = 1
    /\ call.err = "TypeError"
    /\ Len(mols) = 2
    /\ made[2].op = "translate_molecule"
    /\ made[2].args.style = "keyword"

\* C11: nuclear_repulsion() raises nothing: for every Molecule it returns a Result,
\* the Result has an error message exactly when success is false, and a Result with
\* success false has the value 0.
C11_ResultInvariant ==
    call.op = "nuclear_repulsion" =>
        /\ call.err = "none"
        /\ call.ret = nuclear_repulsion(mols[call.args])
        /\ call.ret.success \in BOOLEAN
        /\ (call.ret.error_message # None) <=> (call.ret.success = FALSE)
        /\ call.ret.success = FALSE => call.ret.value = 0

C11_Witness ==
    /\ call.op = "nuclear_repulsion"
    /\ mols[call.args].atoms = <<>>
    /\ call.err = "none"
    /\ call.ret.success = FALSE
    /\ call.ret.error_message = "IndexError"
    /\ call.ret.value = 0

\* C12 as stated: a positive angle rotates counterclockwise about the axis (right-hand
\* rule), that is by I + sin(a) K + (1 - cos(a)) K^2; a rotation by +pi / 2 about the
\* default z-axis sends an atom at (1, 0, 0) to (0, 1, 0).
C12_CounterClockwise ==
    \A k \in 2..Len(mols) :
        (made[k].op = "rotate_molecule" /\ made[k].args.axis # <<0, 0, 0>>) =>
            LET a == made[k].args.angle
                x == IF made[k].args.axis = NoAxis THEN <<0, 0, 1>> ELSE made[k].args.axis
                R == Rodrigues(-a, [c \in 1..3 |-> Sign(x[c])])
                p == made[k].input
                q == coordinates(mols[k])
            IN  \A i \in 1..Len(p) :
                   /\ q[i] = Image(R, p[i])
                   /\ (made[k].args.axis = NoAxis /\ a = 1 /\ p[i] = <<Real(1), 0, 0>>) =>
                          q[i] = <<0, Real(1), 0>>

\* the sum over the unordered pairs i < j <= n of Z_i * Z_j / D[i][j]
PairSum(m, D, n) ==
    Sigma([j \in 1..n |->
              Sigma([i \in 1..n |->
                        IF i < j
                        THEN FDiv(Real(m.atoms[i].atomic_number * m.atoms[j].atomic_number),
                                  D[i][j])
                        ELSE 0], n)], n)

\* C13: when nuclear_repulsion() succeeds on a Molecule whose pairwise distances are
\* all positive, its value is the sum over the unordered pairs i < j of
\* Z_i * Z_j / D[i][j] (the self-terms contribute 0 and each pair counts once), and
\* it is 0 for a Molecule of one atom.
C13_PairSum ==
    call.op = "nuclear_repulsion" =>
        LET m == mols[call.args]
            n == Len(m.atoms)
            d == calculate_distance_matrix(m)
        IN  (call.ret.success = TRUE /\ DistancesPositive(m)) =>
                /\ n = 1 => call.ret.value = 0
                /\ (\A i \in 1..n : \A c \in 1..3 : IsFinite(m.atoms[i].position[c])) =>
                       call.ret.value = PairSum(m, d.val, n)

C13_Witness ==
    /\ call.op = "nuclear_repulsion"
    /\ Len(mols[call.args].atoms) = 3
    /\ call.ret.success = TRUE
    /\ call.ret.value > 0
    /\ call.ret.value = PairSum(mols[call.args], calculate_distance_matrix(mols[call.args]).val, 3)
    /\ call.ret.value
          > FDiv(Real(8), calculate_distance_matrix(mols[call.args]).val[1][2])

\* func(m.coordinates) for the call that made Molecule k out of Molecule made[k].src
NewCoords(k) ==
    IF made[k].op = "translate_molecule"
    THEN translate_lambda(made[k].input, made[k].args.vector).val
    ELSE IF made[k].op = "rotate_molecule"
    THEN rotate_lambda(made[k].input,
                       rotation_matrix(made[k].args.angle,
                                       IF made[k].args.axis = NoAxis THEN DefaultAxis
                                       ELSE made[k].args.axis)).val
    ELSE CallFunc(made[k].args.func, made[k].input).val

\* atoms 1 .. n of Molecule k are those of its source with the rows of
\* func(m.coordinates) as positions, and the unit system is that of the source
SameAtomsNewRows(k, n) ==
    LET m == mols[made[k].src]
    IN  /\ mols[k].unit_system = m.unit_system
        /\ \A i \in 1..n :
              /\ mols[k].atoms[i].symbol = m.atoms[i].symbol
              /\ mols[k].atoms[i].atomic_number = m.atoms[i].atomic_number
              /\ mols[k].atoms[i].mass = m.atoms[i].mass
              /\ mols[k].atoms[i].position = NewCoords(k)[i]

\* C14 as stated: apply_to_coordinates(func, m), and so translate_molecule and
\* rotate_molecule, returns a new Molecule with as many atoms as m in the same
\* order, the i-th with the symbol, atomic number and mass of the i-th atom of m and
\* the i-th row of func(m.coordinates) as position, and with the unit system of m.
C14_SameAtoms ==
    \A k \in 2..Len(mols) :
        /\ Len(mols[k].atoms) = Len(mols[made[k].src].atoms)
        /\ SameAtomsNewRows(k, Len(mols[k].atoms))

\* C14 amended: the same when func returns at least as many rows as m has atoms;
\* in general the new Molecule has as many atoms as the smaller of the number of
\* atoms of m and the number of rows of func(m.coordinates), the rows and atoms
\* beyond that being dropped without an error.
C14_SameAtomsUpToRows ==
    \A k \in 2..Len(mols) :
        LET n == Len(mols[made[k].src].atoms)
            rows == Len(NewCoords(k))
        IN  /\ Len(mols[k].atoms) = Min(n, rows)
            /\ rows >= n => Len(mols[k].atoms) = n
            /\ SameAtomsNewRows(k, Min(n, rows))

C14_Witness ==
    /\ Len(mols) = 2
    /\ Len(mols[1].atoms) = 2
    /\ mols[1].unit_system = "SI"
    /\ made[2].op = "apply_to_coordinates"
    /\ made[2].args.func = "doubled"
    /\ Len(NewCoords(2)) = 4
    /\ Len(mols[2].atoms) = 2
    /\ mols[2].unit_system = "SI"
    /\ mols[2].atoms[2].position = mols[1].atoms[2].position

\* what a derived-quantity call on the Molecule m returns
Derived(op, m) ==
    IF op = "center_of_mass" THEN center_of_mass(m)
    ELSE IF op = "calculate_distance_matrix" THEN calculate_distance_matrix(m).val
    ELSE nuclear_repulsion(m)

\* C15: no call changes a Molecule that exists: after every call of center_of_mass,
\* calculate_distance_matrix, nuclear_repulsion (and the coordinates and
\* atomic_numbers they read), translate_molecule and rotate_molecule, the atoms of
\* every Molecule, their positions, symbols, atomic numbers and masses, and its unit
\* system are what they were before the call, hence what they were when it was
\* constructed; and a derived-quantity call returns what the Molecule as it was
\* before the call determines, so that repeating it returns the same.
C15_NoMutation ==
    [][/\ Len(mols') >= Len(mols)
       /\ \A k \in 1..Len(mols) :
             /\ mols'[k] = mols[k]
             /\ coordinates(mols'[k]) = coordinates(mols[k])
             /\ atomic_numbers(mols'[k]) = atomic_numbers(mols[k])
       /\ call'.op \in {"center_of_mass", "calculate_distance_matrix", "nuclear_repulsion"} =>
             /\ call'.ret = Derived(call'.op, mols[call'.args])
             /\ (call.op = call'.op /\ call.args = call'.args) => call'.ret = call.ret]_vars

C15_Witness ==
    /\ Len(mols) = 2
    /\ Len(mols[1].atoms) = 2
    /\ made[2].op = "translate_molecule"
    /\ coordinates(mols[2]) # coordinates(mols[1])
    /\ coordinates(mols[1]) = made[2].input
    /\ call.op = "nuclear_repulsion"
    /\ call.args = 1
    /\ call.ret = nuclear_repulsion(mols[1])
    /\ call.ret.success = TRUE

\* C16 as stated: rotate_molecule with the zero vector (0, 0, 0) as axis is guarded:
\* the call raises an error and returns no Molecule, so that no Molecule comes out
\* of such a call with undefined (NaN or infinite) coordinates.
C16_ZeroAxisGuarded ==
    /\ (/\ call.op = "rotate_molecule"
        /\ call.args.style = "keyword"
        /\ call.args.axis = <<0, 0, 0>>) =>
           (call.err # "none" /\ call.ret = 0)
    /\ \A k \in 2..Len(mols) :
          (made[k].op = "rotate_molecule" /\ made[k].args.axis = <<0, 0, 0>>) =>
              \A i \in 1..Len(mols[k].atoms) : \A c \in 1..3 :
                  IsFinite(mols[k].atoms[i].position[c])

====
